---- MODULE Spec2Model ----
(***************************************************************************)
(* Retry controllers of taskflow (taskflow/retry.py): the decision         *)
(* operation on_failure, the production operation execute and the cleanup  *)
(* hook revert of AlwaysRevert, AlwaysRevertAll, Times, ForEach and        *)
(* ParameterizedForEach, driven by an engine that owns the failure         *)
(* history and appends one (value, failures) record per failed attempt.    *)
(***************************************************************************)
EXTENDS Integers, Sequences, FiniteSets, TLC

VARIABLES self, history, supplied, last, trace

vars == <<self, history, supplied, last, trace>>

(* ------------------------------ bounds --------------------------------- *)

\* longest candidate collection
MaxLen == 3
\* longest history the engine builds
MaxHist == 2
\* largest attempts bound given to Times
MaxAttempts == 2
\* failures after which an engine run is cut off, beyond the longest run that
\* a collection or an attempts bound allows
MaxRun == MaxLen + MaxAttempts

(* ----------------------------- constants ------------------------------- *)

REVERT == "REVERT"
REVERT_ALL == "REVERT_ALL"
RETRY == "RETRY"

\* Python's None (distinct from every candidate value)
None == 0

\* the values a controller produces are opaque application data: three
\* distinguishable ones (the a, b and c, or z, of the examples)
Items == {1, 2, 3}

Names == {"r1", "r2"}

Tasks == {"t1"}

\* failures of one attempt: a dictionary of failures by task name
FailureMaps == UNION { [S -> {"Failure"}] : S \in SUBSET Tasks }

\* one history entry is the tuple (result, failures)
Records == Items \X FailureMaps

SeqsUpTo(S, n) == UNION { [1..k -> S] : k \in 0..n }

Collections == SeqsUpTo(Items, MaxLen)

(* ------------------------- outcomes of a call -------------------------- *)

Return(v) == [kind |-> "return", value |-> v]

Raise(e) == [kind |-> "raise", exc |-> e]

\* exc.NotFound("No elements left in collection of iterable retry
\* controller %s" % self.name)
NotFound(n) ==
  [type |-> "NotFound",
   text |-> "No elements left in collection of iterable retry controller %s",
   arg |-> n]

(* ---------------------------- constructors ----------------------------- *)

\* Retry.__init__ hands the name to the atom, which keeps it in _name
Retry_init(cls, n) == [cls |-> cls, _name |-> n]

Times_init(attempts, n) ==
  [cls |-> "Times", _name |-> n, _attempts |-> attempts]

ForEach_init(values, n) ==
  [cls |-> "ForEach", _name |-> n, _values |-> values]

\* the name property
name(obj) == obj._name

Controllers ==
  { Retry_init(c, n) :
      c \in {"AlwaysRevert", "AlwaysRevertAll", "ParameterizedForEach"},
      n \in Names }
  \cup { Times_init(a, n) : a \in 0..MaxAttempts, n \in Names }
  \cup { ForEach_init(v, n) : v \in Collections, n \in Names }

(* --------------------------- calling a method -------------------------- *)

TypeError == [type |-> "TypeError"]

\* Python's binding of a call f(*args, **kwargs) to a signature
\* def f(self, <params>, [*args,] **kwargs): every named parameter gets its
\* value from exactly one of the positional and the keyword arguments, and
\* surplus positional arguments need *args
bind(params, varargs, args, kwargs) ==
  [ok |-> /\ varargs \/ Len(args) <= Len(params)
          /\ \A i \in 1..Len(params) :
               (i <= Len(args)) # (params[i] \in DOMAIN kwargs),
   vals |-> [i \in 1..Len(params) |->
               IF i <= Len(args) THEN args[i]
               ELSE IF params[i] \in DOMAIN kwargs THEN kwargs[params[i]]
               ELSE None]]

\* the names Retry.__init__ maps from the signature of execute, `history`
\* left out (ignore_list): the arguments the engine resolves by name
requires(obj) ==
  IF obj.cls = "ParameterizedForEach" THEN {"values"} ELSE {}

(* ------------------------------ methods -------------------------------- *)

\* def on_failure(self, *args, **kwargs)
AlwaysRevert_on_failure(obj, args, kwargs) == Return(REVERT)

\* def execute(self, *args, **kwargs)
AlwaysRevert_execute(obj, args, kwargs) == Return(None)

\* AlwaysRevertAll.on_failure answering like AlwaysRevert
AlwaysRevertAll_on_failure_revert(obj, args, kwargs) ==
  IF ~bind(<<>>, FALSE, args, kwargs).ok THEN Raise(TypeError)
  ELSE Return(REVERT)

\* AlwaysRevertAll.on_failure declared as def on_failure(self)
AlwaysRevertAll_on_failure_nokw(obj, args, kwargs) ==
  IF args # <<>> \/ DOMAIN kwargs # {} THEN Raise(TypeError)
  ELSE Return(REVERT_ALL)

\* def on_failure(self, **kwargs)
AlwaysRevertAll_on_failure(obj, args, kwargs) ==
  IF ~bind(<<>>, FALSE, args, kwargs).ok THEN Raise(TypeError)
  ELSE Return(REVERT_ALL)

\* def execute(self, **kwargs)
AlwaysRevertAll_execute(obj, args, kwargs) ==
  IF ~bind(<<>>, FALSE, args, kwargs).ok THEN Raise(TypeError)
  ELSE Return(None)

\* Times.on_failure reverting only when the history is exactly as long as
\* the bound
Times_on_failure_eq(obj, args, kwargs) ==
  LET b == bind(<<"history">>, TRUE, args, kwargs)
  IN  IF ~b.ok THEN Raise(TypeError)
      ELSE IF Len(b.vals[1]) # obj._attempts THEN Return(RETRY)
      ELSE Return(REVERT)

\* Times.on_failure comparing with <=
Times_on_failure_le(obj, args, kwargs) ==
  LET b == bind(<<"history">>, TRUE, args, kwargs)
  IN  IF ~b.ok THEN Raise(TypeError)
      ELSE IF Len(b.vals[1]) <= obj._attempts THEN Return(RETRY)
      ELSE Return(REVERT)

\* def on_failure(self, history, *args, **kwargs)
Times_on_failure(obj, args, kwargs) ==
  LET b == bind(<<"history">>, TRUE, args, kwargs)
  IN  IF ~b.ok THEN Raise(TypeError)
      ELSE IF Len(b.vals[1]) < obj._attempts THEN Return(RETRY)
      ELSE Return(REVERT)

\* Times.execute counting from zero
Times_execute_len(obj, args, kwargs) ==
  LET b == bind(<<"history">>, TRUE, args, kwargs)
  IN  IF ~b.ok THEN Raise(TypeError)
      ELSE Return(Len(b.vals[1]))

\* def execute(self, history, *args, **kwargs)
Times_execute(obj, args, kwargs) ==
  LET b == bind(<<"history">>, TRUE, args, kwargs)
  IN  IF ~b.ok THEN Raise(TypeError)
      ELSE Return(Len(b.vals[1]) + 1)

\* Retry.revert(self, history, *args, **kwargs): the body is only a docstring
Retry_revert(obj, args, kwargs) ==
  IF ~bind(<<"history">>, TRUE, args, kwargs).ok THEN Raise(TypeError)
  ELSE Return(None)

\* a removal that drops the last element equal to item
list_remove_last(values, item) ==
  IF \E i \in 1..Len(values) : values[i] = item
    THEN LET i == CHOOSE j \in 1..Len(values) :
                    /\ values[j] = item
                    /\ \A k \in (j + 1)..Len(values) : values[k] # item
         IN  [raised |-> FALSE,
              list |-> SubSeq(values, 1, i - 1) \o SubSeq(values, i + 1, Len(values))]
    ELSE [raised |-> TRUE, list |-> values]

\* a removal that drops every element equal to item
list_remove_all(values, item) ==
  [raised |-> \A i \in 1..Len(values) : values[i] # item,
   list |-> SelectSeq(values, LAMBDA v : v # item)]

\* list.remove(item): drops the first element equal to item, ValueError when
\* there is none
list_remove(values, item) ==
  IF \E i \in 1..Len(values) : values[i] = item
    THEN LET i == CHOOSE j \in 1..Len(values) :
                    /\ values[j] = item
                    /\ \A k \in 1..(j - 1) : values[k] # item
         IN  [raised |-> FALSE,
              list |-> SubSeq(values, 1, i - 1) \o SubSeq(values, i + 1, Len(values))]
    ELSE [raised |-> TRUE, list |-> values]

\* one turn of the loop over history, (item, failures) being the record:
\* try: values.remove(item) except ValueError: pass
remove_or_pass(values, record) ==
  LET r == list_remove(values, record[1])
  IN  IF r.raised THEN values ELSE r.list

\* for (item, failures) in history: ...
RECURSIVE remove_each(_, _)
remove_each(values, h) ==
  IF h = <<>> THEN values
  ELSE remove_each(remove_or_pass(values, Head(h)), Tail(h))

\* _get_next_value answering None once nothing is left
_get_next_value_none(obj, values, h) ==
  LET working == remove_each(values, h)
  IN  [result |-> IF working = <<>> THEN Return(None) ELSE Return(working[1]),
       values |-> values]

\* _get_next_value without the try/except around the removal
_get_next_value_strict(obj, values, h) ==
  LET working == remove_each(values, h)
      absent(i) == list_remove(remove_each(values, SubSeq(h, 1, i - 1)), h[i][1]).raised
  IN  [result |-> IF \E i \in 1..Len(h) : absent(i)
                    THEN Raise([type |-> "ValueError"])
                  ELSE IF working = <<>> THEN Raise(NotFound(name(obj)))
                  ELSE Return(working[1]),
       values |-> values]

\* _get_next_value removing from the caller's list instead of a copy
_get_next_value_nocopy(obj, values, h) ==
  LET working == remove_each(values, h)
  IN  [result |-> IF working = <<>> THEN Raise(NotFound(name(obj)))
                  ELSE Return(working[1]),
       values |-> working]

\* ForEachBase._get_next_value. The loop works on list(values), a copy:
\* `values` of the outcome is what the caller's collection holds afterwards
_get_next_value(obj, values, h) ==
  LET working == remove_each(values, h)
  IN  [result |-> IF working = <<>> THEN Raise(NotFound(name(obj)))
                  ELSE Return(working[1]),
       values |-> values]

\* _on_failure without the except clause
_on_failure_uncaught(obj, values, h) ==
  LET r == _get_next_value(obj, values, h)
  IN  [result |-> IF r.result.kind = "raise" THEN r.result ELSE Return(RETRY),
       values |-> r.values]

\* _on_failure giving the whole flow up once nothing is left
_on_failure_revert_all(obj, values, h) ==
  LET r == _get_next_value(obj, values, h)
  IN  [result |-> IF r.result.kind = "raise"
                    THEN IF r.result.exc.type = "NotFound" THEN Return(REVERT_ALL)
                         ELSE r.result
                  ELSE Return(RETRY),
       values |-> r.values]

\* _on_failure with its two answers exchanged
_on_failure_swapped(obj, values, h) ==
  LET r == _get_next_value(obj, values, h)
  IN  [result |-> IF r.result.kind = "raise"
                    THEN IF r.result.exc.type = "NotFound" THEN Return(RETRY)
                         ELSE r.result
                  ELSE Return(REVERT),
       values |-> r.values]

\* ForEachBase._on_failure: only exc.NotFound is caught
_on_failure(obj, values, h) ==
  LET r == _get_next_value(obj, values, h)
  IN  [result |-> IF r.result.kind = "raise"
                    THEN IF r.result.exc.type = "NotFound" THEN Return(REVERT)
                         ELSE r.result
                  ELSE Return(RETRY),
       values |-> r.values]

\* def on_failure(self, history, *args, **kwargs)
ForEach_on_failure(obj, args, kwargs) ==
  LET b == bind(<<"history">>, TRUE, args, kwargs)
  IN  IF ~b.ok THEN [result |-> Raise(TypeError), values |-> obj._values]
      ELSE _on_failure(obj, obj._values, b.vals[1])

\* def execute(self, history, *args, **kwargs)
ForEach_execute(obj, args, kwargs) ==
  LET b == bind(<<"history">>, TRUE, args, kwargs)
  IN  IF ~b.ok THEN [result |-> Raise(TypeError), values |-> obj._values]
      ELSE _get_next_value(obj, obj._values, b.vals[1])

\* def on_failure(self, values, history, *args, **kwargs)
ParameterizedForEach_on_failure(obj, args, kwargs) ==
  LET b == bind(<<"values", "history">>, TRUE, args, kwargs)
  IN  IF ~b.ok THEN [result |-> Raise(TypeError), values |-> <<>>]
      ELSE _on_failure(obj, b.vals[1], b.vals[2])

\* ParameterizedForEach.execute taking the first of the supplied values,
\* whatever the history holds
ParameterizedForEach_execute_nohist(obj, args, kwargs) ==
  LET b == bind(<<"values", "history">>, TRUE, args, kwargs)
  IN  IF ~b.ok THEN [result |-> Raise(TypeError), values |-> <<>>]
      ELSE _get_next_value(obj, b.vals[1], <<>>)

\* def execute(self, values, history, *args, **kwargs)
ParameterizedForEach_execute(obj, args, kwargs) ==
  LET b == bind(<<"values", "history">>, TRUE, args, kwargs)
  IN  IF ~b.ok THEN [result |-> Raise(TypeError), values |-> <<>>]
      ELSE _get_next_value(obj, b.vals[1], b.vals[2])

\* obj.on_failure(*args, **kwargs): the method of the object's class
on_failure(obj, args, kwargs) ==
  CASE obj.cls = "AlwaysRevert" -> AlwaysRevert_on_failure(obj, args, kwargs)
    [] obj.cls = "AlwaysRevertAll" -> AlwaysRevertAll_on_failure(obj, args, kwargs)
    [] obj.cls = "Times" -> Times_on_failure(obj, args, kwargs)
    [] obj.cls = "ForEach" -> ForEach_on_failure(obj, args, kwargs).result
    [] obj.cls = "ParameterizedForEach" ->
         ParameterizedForEach_on_failure(obj, args, kwargs).result

\* obj.execute(*args, **kwargs): the method of the object's class
execute(obj, args, kwargs) ==
  CASE obj.cls = "AlwaysRevert" -> AlwaysRevert_execute(obj, args, kwargs)
    [] obj.cls = "AlwaysRevertAll" -> AlwaysRevertAll_execute(obj, args, kwargs)
    [] obj.cls = "Times" -> Times_execute(obj, args, kwargs)
    [] obj.cls = "ForEach" -> ForEach_execute(obj, args, kwargs).result
    [] obj.cls = "ParameterizedForEach" ->
         ParameterizedForEach_execute(obj, args, kwargs).result

(* ------------------------------ actions -------------------------------- *)

NoCall == [op |-> "none"]

\* the engine calls by keyword: the history under `history`, and what the
\* controller requires under its name, resolved from storage
retry_args ==
  [k \in requires(self) \cup {"history"} |->
     IF k = "history" THEN history ELSE supplied]

\* what the engine holds after a call: the operation, the controller and the
\* arguments it was called with, and its outcome
Call(op, result) ==
  [op |-> op, self |-> self, args |-> <<>>, kwargs |-> retry_args,
   result |-> result]

Init ==
  /\ self \in Controllers
  /\ history = <<>>
  /\ supplied \in IF self.cls = "ParameterizedForEach" THEN Collections ELSE {<<>>}
  /\ last = NoCall
  /\ trace = <<>>

\* the engine asks the controller what to do after a failure
OnFailure ==
  /\ \/ /\ self.cls = "AlwaysRevert"
        /\ last' = Call("on_failure", AlwaysRevert_on_failure(self, <<>>, retry_args))
        /\ UNCHANGED <<self, supplied>>
     \/ /\ self.cls = "AlwaysRevertAll"
        /\ last' = Call("on_failure", AlwaysRevertAll_on_failure(self, <<>>, retry_args))
        /\ UNCHANGED <<self, supplied>>
     \/ /\ self.cls = "Times"
        /\ last' = Call("on_failure", Times_on_failure(self, <<>>, retry_args))
        /\ UNCHANGED <<self, supplied>>
     \/ /\ self.cls = "ForEach"
        /\ LET r == ForEach_on_failure(self, <<>>, retry_args)
           IN  /\ last' = Call("on_failure", r.result)
               /\ self' = [self EXCEPT !._values = r.values]
        /\ UNCHANGED supplied
     \/ /\ self.cls = "ParameterizedForEach"
        /\ LET r == ParameterizedForEach_on_failure(self, <<>>, retry_args)
           IN  /\ last' = Call("on_failure", r.result)
               /\ supplied' = r.values
        /\ UNCHANGED self
  /\ UNCHANGED history

\* the engine asks the controller for the value of the next attempt
Execute ==
  /\ \/ /\ self.cls = "AlwaysRevert"
        /\ last' = Call("execute", AlwaysRevert_execute(self, <<>>, retry_args))
        /\ UNCHANGED <<self, supplied>>
     \/ /\ self.cls = "AlwaysRevertAll"
        /\ last' = Call("execute", AlwaysRevertAll_execute(self, <<>>, retry_args))
        /\ UNCHANGED <<self, supplied>>
     \/ /\ self.cls = "Times"
        /\ last' = Call("execute", Times_execute(self, <<>>, retry_args))
        /\ UNCHANGED <<self, supplied>>
     \/ /\ self.cls = "ForEach"
        /\ LET r == ForEach_execute(self, <<>>, retry_args)
           IN  /\ last' = Call("execute", r.result)
               /\ self' = [self EXCEPT !._values = r.values]
        /\ UNCHANGED supplied
     \/ /\ self.cls = "ParameterizedForEach"
        /\ LET r == ParameterizedForEach_execute(self, <<>>, retry_args)
           IN  /\ last' = Call("execute", r.result)
               /\ supplied' = r.values
        /\ UNCHANGED self
  /\ UNCHANGED history

\* the engine tears the subflow down; no class overrides Retry.revert
Revert ==
  /\ last' = Call("revert", Retry_revert(self, <<>>, retry_args))
  /\ UNCHANGED <<self, history, supplied>>

\* Retry.set_name
set_name(n) ==
  /\ self' = [self EXCEPT !._name = n]
  /\ UNCHANGED <<history, supplied, last, trace>>

\* the engine records a failed attempt: the outcome of the call it made
\* before is consumed, the next call sees the longer history
AppendRecord(record) ==
  /\ Len(history) < MaxHist
  /\ history' = Append(history, record)
  /\ last' = NoCall
  /\ UNCHANGED <<self, supplied, trace>>

\* a call made outside a run, on whatever history there is
AnyOnFailure == OnFailure /\ UNCHANGED trace

AnyExecute == Execute /\ UNCHANGED trace

AnyRevert == Revert /\ UNCHANGED trace

Next ==
  \/ AnyOnFailure
  \/ AnyExecute
  \/ AnyRevert
  \/ \E n \in Names : set_name(n)
  \/ \E record \in Records : AppendRecord(record)

Spec == Init /\ [][Next]_vars

TypeOK ==
  /\ self \in Controllers
  /\ history \in SeqsUpTo(Records, MaxHist)
  /\ supplied \in Collections
  /\ last.op \in {"none", "on_failure", "execute", "revert"}
  /\ trace = <<>>

(* ---------------------------- an engine run ---------------------------- *)

\* one entry of the trace of a run: a call the engine made and its outcome
Made == [op |-> last'.op, result |-> last'.result]

\* execute starts the subflow, and restarts it after on_failure said RETRY
EngineExecute ==
  /\ \/ last = NoCall /\ history = <<>>
     \/ last.op = "on_failure" /\ last.result = Return(RETRY)
  /\ Execute
  /\ trace' = Append(trace, Made)

\* the attempt fails: the value execute returned is saved to the history
\* with the failures of the attempt
EngineFail(failures) ==
  /\ last.op = "execute"
  /\ last.result.kind = "return"
  /\ Len(history) < MaxRun
  /\ history' = Append(history, <<last.result.value, failures>>)
  /\ last' = NoCall
  /\ UNCHANGED <<self, supplied, trace>>

\* the attempt succeeds: the run is over
EngineSucceed ==
  /\ last.op = "execute"
  /\ last.result.kind = "return"
  /\ last' = [op |-> "success"]
  /\ UNCHANGED <<self, history, supplied, trace>>

\* on subflow failure the controller decides
EngineOnFailure ==
  /\ last = NoCall
  /\ history # <<>>
  /\ OnFailure
  /\ trace' = Append(trace, Made)

\* revert is called only if the subflow is reverted without a retry
EngineRevert ==
  /\ last.op = "on_failure"
  /\ last.result \in {Return(REVERT), Return(REVERT_ALL)}
  /\ Revert
  /\ trace' = Append(trace, Made)

EngineNext ==
  \/ EngineExecute
  \/ \E failures \in FailureMaps : EngineFail(failures)
  \/ EngineSucceed
  \/ EngineOnFailure
  \/ EngineRevert

EngineSpec == Init /\ [][EngineNext]_vars

(* ------------------------ reading the last call ------------------------ *)

Called(op, classes) == last.op = op /\ last.self.cls \in classes

\* the history the call was given
hist == last.kwargs.history

\* the candidate collection the call worked on
coll == IF last.self.cls = "ForEach" THEN last.self._values ELSE last.kwargs.values

ForEachClasses == {"ForEach", "ParameterizedForEach"}

\* number of records of h that carry the value v
Used(h, v) == Cardinality({j \in 1..Len(h) : h[j][1] = v})

\* number of elements of the sequence s equal to v
Count(s, v) == Cardinality({j \in 1..Len(s) : s[j] = v})

\* position i of values holds the Occ-th occurrence of its value
Occ(values, i) == Cardinality({j \in 1..i : values[j] = values[i]})

\* reference multiset removal: the positions of values that a history leaves,
\* each record consuming the earliest unconsumed occurrence of its value
Left(values, h) == {i \in 1..Len(values) : Occ(values, i) > Used(h, values[i])}

FirstLeft(values, h) ==
  values[CHOOSE i \in Left(values, h) : \A j \in Left(values, h) : i <= j]

(* ------------------------------- claims -------------------------------- *)

\* C1: Times(attempts=n).on_failure on a history of length k returns RETRY
\* when k < n and REVERT when k >= n, whatever the records hold.
C1_TimesOnFailure ==
  Called("on_failure", {"Times"}) =>
    /\ Len(hist) < last.self._attempts => last.result = Return(RETRY)
    /\ Len(hist) >= last.self._attempts => last.result = Return(REVERT)

\* Times(2) asked after a second failure, recorded with a failed task: REVERT
C1_Witness ==
  /\ Called("on_failure", {"Times"})
  /\ last.self._attempts = 2
  /\ Len(hist) = 2
  /\ hist[2][2] # <<>>
  /\ last.result = Return(REVERT)

\* C5: Times.execute on a history of length k returns k+1 for every n and
\* every content of the records, and the controller holds nothing but its
\* name and its bound, which no call changes.
C5_TimesExecute ==
  /\ Called("execute", {"Times"}) => last.result = Return(Len(hist) + 1)
  /\ (last.op # "none" /\ last.self.cls = "Times") =>
       /\ DOMAIN self = {"cls", "_name", "_attempts"}
       /\ self._attempts = last.self._attempts

\* Times(1) executed on a history that is already longer than its bound
C5_Witness ==
  /\ Called("execute", {"Times"})
  /\ last.self._attempts = 1
  /\ Len(hist) = 2
  /\ hist[1][1] # hist[2][1]
  /\ last.result = Return(3)

\* C6: AlwaysRevert.on_failure returns REVERT and AlwaysRevertAll.on_failure
\* returns REVERT_ALL for every history the engine passes, the empty one
\* included.
C6_AlwaysConstant ==
  /\ Called("on_failure", {"AlwaysRevert"}) => last.result = Return(REVERT)
  /\ Called("on_failure", {"AlwaysRevertAll"}) => last.result = Return(REVERT_ALL)

\* AlwaysRevertAll asked with a history of two different records
C6_Witness ==
  /\ Called("on_failure", {"AlwaysRevertAll"})
  /\ Len(hist) = 2
  /\ hist[1] # hist[2]
  /\ last.result = Return(REVERT_ALL)

\* C2: ForEach.execute returns the first element, in collection order, of
\* what is left of a copy of values after each history record in turn has
\* removed the first occurrence of its value, whenever something is left.
C2_ForEachExecute ==
  (Called("execute", {"ForEach"}) /\ Left(coll, hist) # {}) =>
    last.result = Return(FirstLeft(coll, hist))

\* a collection with a repeated value around another one: [a, b, a] after one
\* failure with a leaves [b, a]
C2_Witness ==
  /\ Called("execute", {"ForEach"})
  /\ Len(coll) = 3 /\ coll[1] = coll[3] /\ coll[1] # coll[2]
  /\ Len(hist) = 1 /\ hist[1][1] = coll[1]
  /\ last.result = Return(coll[2])

\* C3: ForEach.on_failure returns RETRY exactly when a candidate is left
\* after the removals and REVERT exactly when none is; the exhaustion raised
\* by the helper never leaves on_failure.
C3_ForEachOnFailure ==
  Called("on_failure", {"ForEach"}) =>
    /\ last.result.kind = "return"
    /\ last.result.value = RETRY <=> Left(coll, hist) # {}
    /\ last.result.value = REVERT <=> Left(coll, hist) = {}

\* two candidates, both consumed by the history: REVERT
C3_Witness ==
  /\ Called("on_failure", {"ForEach"})
  /\ Len(coll) = 2
  /\ Len(hist) = 2
  /\ Left(coll, hist) = {}
  /\ last.result = Return(REVERT)

\* C4: ForEach.execute returns no value once the history has consumed every
\* candidate: it raises NotFound, the message formatted with the name the
\* controller has at the call.
C4_ExecuteExhausted ==
  (Called("execute", {"ForEach"}) /\ Left(coll, hist) = {}) =>
    /\ last.result.kind = "raise"
    /\ last.result.exc = NotFound(last.self._name)

\* ForEach([a]) with history [(a, {})]
C4_Witness ==
  /\ Called("execute", {"ForEach"})
  /\ Len(coll) = 1
  /\ hist = << <<coll[1], <<>> >> >>
  /\ last.result.kind = "raise"
  /\ last.result.exc.arg = last.self._name

\* C7: for every strategy and every well-formed history, on_failure returns
\* one of RETRY, REVERT, REVERT_ALL and raises nothing.
C7_OnFailureTotal ==
  last.op = "on_failure" =>
    /\ last.result.kind = "return"
    /\ last.result.value \in {RETRY, REVERT, REVERT_ALL}

\* AlwaysRevertAll called by keyword with a non-empty history
C7_Witness ==
  /\ Called("on_failure", {"AlwaysRevertAll"})
  /\ DOMAIN last.kwargs = {"history"}
  /\ Len(hist) = 1
  /\ last.result.kind = "return"

\* C8: ForEach and ParameterizedForEach never return REVERT_ALL from
\* on_failure: the result is RETRY or REVERT.
C8_NeverRevertAll ==
  Called("on_failure", ForEachClasses) =>
    last.result \in {Return(RETRY), Return(REVERT)}

\* ParameterizedForEach whose supplied collection the history has used up
C8_Witness ==
  /\ Called("on_failure", {"ParameterizedForEach"})
  /\ coll # <<>>
  /\ Left(coll, hist) = {}
  /\ last.result = Return(REVERT)

\* occurrences of v that the loop of _get_next_value leaves in its working copy
InWorking(v) == Count(remove_each(coll, hist), v)

\* C9: candidates are consumed as a multiset: each history record takes at
\* most one occurrence of its value, so a value with m occurrences and j < m
\* records is still a candidate (m - j occurrences are left), a value that
\* execute returns has an occurrence left, and execute returns an element
\* other than the first one's value only once as many records carry that
\* value as it has occurrences before the first occurrence of the returned one.
C9_MultisetConsumption ==
  Called("execute", ForEachClasses) =>
    /\ \A v \in Items :
         /\ Used(hist, v) < Count(coll, v) =>
              InWorking(v) = Count(coll, v) - Used(hist, v)
         /\ Used(hist, v) >= Count(coll, v) => InWorking(v) = 0
    /\ last.result.kind = "return" =>
         Used(hist, last.result.value) < Count(coll, last.result.value)
    /\ \A i \in 2..Len(coll) :
         (coll[i] # coll[1] /\ Occ(coll, i) = 1 /\ last.result = Return(coll[i])) =>
           Used(hist, coll[1]) >= Count(SubSeq(coll, 1, i - 1), coll[1])

\* ForEach([a, a, b]) with history [(a, {})] yields a again
C9_Witness ==
  /\ Called("execute", {"ForEach"})
  /\ Len(coll) = 3 /\ coll[1] = coll[2] /\ coll[2] # coll[3]
  /\ hist = << <<coll[1], <<>> >> >>
  /\ last.result = Return(coll[1])

\* the history h without its i-th record
Without(h, i) == SubSeq(h, 1, i - 1) \o SubSeq(h, i + 1, Len(h))

\* the i-th record of h carries a value that the working copy does not hold
\* when its turn comes
Absent(values, h, i) ==
  Count(remove_each(values, SubSeq(h, 1, i - 1)), h[i][1]) = 0

\* C10: a history record whose value is not in the working copy when its
\* turn comes changes nothing: execute and on_failure answer as for the
\* history without that record, and on_failure raises nothing.
C10_AbsentValueIgnored ==
  \A i \in 1..MaxHist :
    (Called("execute", ForEachClasses) \/ Called("on_failure", ForEachClasses))
      /\ i <= Len(hist) /\ Absent(coll, hist, i) =>
        /\ Called("execute", ForEachClasses) =>
             last.result = _get_next_value(last.self, coll, Without(hist, i)).result
        /\ Called("on_failure", ForEachClasses) =>
             /\ last.result = _on_failure(last.self, coll, Without(hist, i)).result
             /\ last.result.kind = "return"

\* ForEach([a, b]) with history [(z, {})] yields a
C10_Witness ==
  /\ Called("execute", {"ForEach"})
  /\ Len(coll) = 2 /\ coll[1] # coll[2]
  /\ Len(hist) = 1 /\ hist[1][1] \notin {coll[1], coll[2]}
  /\ last.result = Return(coll[1])

\* the controller as it is now, under the name it had at the last call
SelfNow == [self EXCEPT !._name = last.self._name]

\* C11: on_failure and execute are functions of their inputs alone: whatever
\* calls were made before, the controller they leave answers on_failure and
\* execute for the same arguments as the controller they found, so a second
\* call with the same history (and supplied collection) yields what the
\* first one did.
C11_Deterministic ==
  last.op \in {"on_failure", "execute", "revert"} =>
    /\ on_failure(SelfNow, last.args, last.kwargs)
         = on_failure(last.self, last.args, last.kwargs)
    /\ execute(SelfNow, last.args, last.kwargs)
         = execute(last.self, last.args, last.kwargs)
    /\ last.op = "on_failure" =>
         on_failure(SelfNow, last.args, last.kwargs) = last.result
    /\ last.op = "execute" =>
         execute(SelfNow, last.args, last.kwargs) = last.result

\* ForEach([a, a, ...]) asked after one failure with a: a second call on the
\* same history, made after a rename, would answer RETRY again
C11_Witness ==
  /\ Called("on_failure", {"ForEach"})
  /\ Len(coll) >= 2 /\ coll[1] = coll[2]
  /\ hist = << <<coll[1], <<>> >> >>
  /\ self._name # last.self._name
  /\ last.result = Return(RETRY)
  /\ on_failure(self, last.args, last.kwargs) = Return(RETRY)

(* --------------------------- reading a run ----------------------------- *)

\* the outcomes, in order, of the calls of one operation in the run
Outcomes(op) ==
  LET pick(e) == e.op = op
      calls == SelectSeq(trace, pick)
  IN  [i \in 1..Len(calls) |-> calls[i].result]

\* how often on_failure has answered RETRY in the run
Retries ==
  Cardinality({i \in 1..Len(trace) :
                 trace[i].op = "on_failure" /\ trace[i].result = Return(RETRY)})

\* C12: in a run in which every attempt fails, Times(attempts=n) answers
\* RETRY exactly n times before it answers REVERT.
C12_RetriesGivenNumber ==
  (Called("on_failure", {"Times"}) /\ last.result = Return(REVERT)) =>
    Retries = last.self._attempts

\* the ForEach controller constructed with the collection and the name of the
\* last call, and the ParameterizedForEach controller of that name
AsForEach == ForEach_init(coll, last.self._name)

AsParameterized == Retry_init("ParameterizedForEach", last.self._name)

\* C13: ParameterizedForEach answers as ForEach does on the same collection:
\* for every collection c and history h, execute and on_failure called with
\* (c, h) give the value, the action or the exhaustion failure that
\* ForEach(c) gives on h.
C13_ParameterizedAsForEach ==
  /\ Called("execute", {"ParameterizedForEach"}) =>
       last.result = execute(AsForEach, <<>>, [history |-> hist])
  /\ Called("on_failure", {"ParameterizedForEach"}) =>
       last.result = on_failure(AsForEach, <<>>, [history |-> hist])
  /\ Called("execute", {"ForEach"}) =>
       last.result = execute(AsParameterized, <<>>, [values |-> coll, history |-> hist])
  /\ Called("on_failure", {"ForEach"}) =>
       last.result = on_failure(AsParameterized, <<>>, [values |-> coll, history |-> hist])

\* ParameterizedForEach given [a, b] and a history that holds a: b, as
\* ForEach([a, b]) answers
C13_Witness ==
  /\ Called("execute", {"ParameterizedForEach"})
  /\ Len(coll) = 2 /\ coll[1] # coll[2]
  /\ Len(hist) = 1 /\ hist[1][1] = coll[1]
  /\ last.result = Return(coll[2])
  /\ execute(AsForEach, <<>>, [history |-> hist]) = Return(coll[2])

\* C14: no operation changes what it is given: after execute, on_failure or
\* revert, on any strategy, the collection (stored by ForEach, or supplied to
\* ParameterizedForEach) and the history hold what they held at the call,
\* in the same order.
C14_InputsUnchanged ==
  last.op \in {"on_failure", "execute", "revert"} =>
    /\ history = hist
    /\ last.self.cls = "ForEach" => self._values = last.self._values
    /\ last.self.cls = "ParameterizedForEach" => supplied = last.kwargs.values
    /\ SelfNow = last.self

\* ForEach([a, b, ...]) executed on a history that takes a and b out of the
\* working copy: the stored collection still starts with a, b
C14_Witness ==
  /\ Called("execute", {"ForEach"})
  /\ Len(hist) = 2
  /\ Len(coll) >= 2 /\ hist[1][1] = coll[1] /\ hist[2][1] = coll[2]
  /\ self._values = coll
  /\ history = hist

\* C15 as stated: in a run that calls ForEach.execute first on the empty
\* history and then only after on_failure answered RETRY, execute never
\* fails with the exhaustion, whatever collection the controller was
\* constructed with.
C15_ExecuteNeverExhausted ==
  Called("execute", {"ForEach"}) => last.result.kind = "return"

\* C15, amended: the same for every non-empty collection.
C15_ExecuteNeverExhaustedNonEmpty ==
  (Called("execute", {"ForEach"}) /\ coll # <<>>) => last.result.kind = "return"

\* the third execute of a run of ForEach over three candidates, made after
\* two failures and two RETRY answers
C15_Witness ==
  /\ Called("execute", {"ForEach"})
  /\ Len(coll) = 3
  /\ Len(history) = 2
  /\ Retries = 2
  /\ last.result = Return(coll[3])

\* C16: in a run of ForEach(values), values not empty, in which every
\* attempt fails, the successive execute calls return the elements of values
\* in their order, each position once; on_failure answers RETRY after each
\* of the first len(values) - 1 failures and REVERT after failure number
\* len(values); so the subflow is attempted len(values) times.
C16_ForEachRun ==
  (self.cls = "ForEach" /\ self._values # <<>>) =>
    LET values == self._values
        executed == Outcomes("execute")
        decided == Outcomes("on_failure")
    IN  /\ Len(executed) <= Len(values)
        /\ \A i \in 1..Len(executed) : executed[i] = Return(values[i])
        /\ Len(decided) <= Len(values)
        /\ \A i \in 1..Len(decided) :
             decided[i] = IF i < Len(values) THEN Return(RETRY) ELSE Return(REVERT)
        /\ (last.op = "on_failure" /\ last.result = Return(REVERT)) =>
             /\ Len(executed) = Len(values)
             /\ Len(history) = Len(values)

\* ForEach([a, b, a]) after its third failure: a, b, a were tried and the
\* answer is REVERT
C16_Witness ==
  /\ Called("on_failure", {"ForEach"})
  /\ Len(coll) = 3 /\ coll[1] = coll[3] /\ coll[1] # coll[2]
  /\ Outcomes("execute") = <<Return(coll[1]), Return(coll[2]), Return(coll[3])>>
  /\ Outcomes("on_failure") = <<Return(RETRY), Return(RETRY), Return(REVERT)>>

\* the ways a history grows by one or two records
Growth ==
  { <<r>> : r \in Records } \cup { <<r1, r2>> : r1 \in Records, r2 \in Records }

\* C17: REVERT is stable under growth of the history: once Times, or ForEach
\* with its collection, has answered REVERT on a history, it answers REVERT
\* on every history got from it by appending records, whatever their values.
C17_RevertStable ==
  (Called("on_failure", {"Times", "ForEach"}) /\ last.result = Return(REVERT)) =>
    \A more \in Growth :
      on_failure(last.self, <<>>, [history |-> hist \o more]) = Return(REVERT)

\* ForEach([a]) answered REVERT on [(a, {})]; a further record with another
\* value does not bring a candidate back
C17_Witness ==
  /\ Called("on_failure", {"ForEach"})
  /\ Len(coll) = 1
  /\ Len(hist) = 1 /\ hist[1][1] = coll[1]
  /\ last.result = Return(REVERT)
  /\ \E r \in Records :
       /\ r[1] # coll[1]
       /\ on_failure(last.self, <<>>, [history |-> Append(hist, r)]) = Return(REVERT)

\* a run driven by Times with a bound of at least one
TimesRun == self.cls = "Times" /\ self._attempts >= 1

\* the run is over: the subflow succeeded, or it was reverted
Over == last.op \in {"success", "revert"}

\* C18: the retry loop driven by Times(attempts=n), n >= 1, always ends: when
\* every attempt fails, execute is called n times and returns 1, 2, ..., n,
\* the run ends with REVERT after the n-th failure, and no run makes more
\* than n attempts. Every step of a run adds a call or a record, so a run
\* ends if it is never stuck before it is over and its calls are bounded.
C18_TimesRunTerminates ==
  TimesRun =>
    LET n == self._attempts
        executed == Outcomes("execute")
        decided == Outcomes("on_failure")
    IN  /\ Len(executed) <= n
        /\ \A k \in 1..Len(executed) : executed[k] = Return(k)
        /\ \A k \in 1..Len(decided) :
             decided[k] = IF k < n THEN Return(RETRY) ELSE Return(REVERT)
        /\ Len(decided) <= Len(executed)
        /\ Len(history) <= Len(executed)
        /\ last.op = "revert" =>
             /\ Len(executed) = n
             /\ Len(history) = n
             /\ decided[Len(decided)] = Return(REVERT)
        /\ Over \/ ENABLED EngineNext

\* Times(2) reverted after two failed attempts
C18_Witness ==
  /\ last.op = "revert"
  /\ self.cls = "Times" /\ self._attempts = 2
  /\ Outcomes("execute") = <<Return(1), Return(2)>>
  /\ Outcomes("on_failure") = <<Return(RETRY), Return(REVERT)>>

====
